---- MODULE Spec2Model ----
(***************************************************************************)
(* Model of vscode-gpg-indicator's indicator core:                         *)
(*   src/src/indicator/process.ts  textSpawn, CurrentTty                   *)
(*   src/src/indicator/gpg.ts      parseGpgKey, isKeyUnlocked, getKeyInfo, *)
(*                                 Action, answerTty, unlockByKeyId        *)
(*                                                                         *)
(* Four specifications share the module:                                   *)
(*   TtySpec    CurrentTty (open/read/write/dispose) driven by answerTty,  *)
(*              with the peer on the controlling terminal (the child) as   *)
(*              the environment;                                           *)
(*   SpawnSpec  one call of textSpawn with the child process' events       *)
(*              (stdout/stderr data, stdin error, error, close) as the     *)
(*              environment;                                               *)
(*   UnlockSpec one call of unlockByKeyId, with the temporary files and    *)
(*              the interactive driver as the environment;                 *)
(*   GpgSpec    one call of parseGpgKey, isKeyUnlocked or getKeyInfo on    *)
(*              the texts gpg and its agent print.                         *)
(* JavaScript runs every handler and every stretch between two awaits to   *)
(* completion, so each of them is one action.                              *)
(***************************************************************************)
EXTENDS Integers, Sequences, FiniteSets, TLC

\* ------------------------------------------------------------------ bounds
\* Longest Action list handed to answerTty.
MaxActions == 2
\* Most chunks the peer on the terminal emits in one behaviour.
MaxChunks == 3
\* Most calls of CurrentTty.open() in one behaviour.
MaxOpens == 1
\* Most calls of CurrentTty.dispose() in one behaviour.
MaxDisposes == 1
\* Most 'data' events of the child's stdout, and of its stderr.
MaxStdout == 2
MaxStderr == 2

\* ------------------------------------------------------------- gpg.ts data
\* The two questions unlockByKeyId scripts (gpg.ts:115-116), by name.
OverwriteQ == "File .* exists. Overwrite? (y/N)"
PassphraseQ == "Enter passphrase:"
Questions == {OverwriteQ, PassphraseQ}

\* class Action: a question pattern and the answer sent when it matches.
Action(question, answer) == [question |-> question, answer |-> answer]

\* The Actions sessions are scripted with: those of unlockByKeyId.
ActionPool == {Action(OverwriteQ, "y\n"), Action(PassphraseQ, "passphrase\n")}

\* Every Action list of at most MaxActions Actions, in any order, repeats
\* included.
Scripts == UNION {[1..n -> ActionPool] : n \in 0..MaxActions}

\* A chunk of terminal output is modelled by the set of question patterns
\* that occur in it: {} is unrelated text, a chunk holding two prompts at
\* once satisfies both patterns.
Chunks == SUBSET Questions

\* output.match(action.question) !== null : an unanchored search.
Matches(text, question) == question \in text

\* The value of a field that was never assigned.
Undefined == 0

VARIABLES
    \* CurrentTty
    ttyPath,        \* #ttyPath: "undefined" or the device path
    readHandle,     \* #readHandle: Undefined or a handle id
    writeHandle,    \* #writeHandle: Undefined or a handle id
    openPc,         \* where the open() in flight stands: "none", "r", "w"
    opens,          \* calls of open() so far
    opened,         \* some call of open() has resolved
    fds,            \* the handle ids currently open in the OS
    fdCount,        \* handles ever opened
    writesInFlight, \* contents handed to writeFile, not yet written
    disposePc,      \* where the dispose() in flight stands: "none", "r", "w"
    disposes,       \* calls of dispose() so far
    closing,        \* the handle whose close() the dispose() in flight awaits
    disposeBase,    \* handles opened before the dispose() in flight was called
    lastDispose,    \* the last dispose() that settled: how, and what it left open
    \* the terminal and the peer behind it
    ttyIn,          \* chunks the peer emitted that no read has returned yet
    ttyOut,         \* contents fully written to the terminal, in order
    emitted,        \* every chunk the peer emitted, in order
    childPc,        \* "running" or "exited"
    exitCode,       \* the peer's exit code once exited
    lateChunk,      \* the peer emitted a chunk after the last Action was consumed
    \* answerTty
    actions,        \* the Action list of the session
    idx,            \* Actions fully consumed (loop iterations completed)
    sessPc,         \* "idle", "read", "write", "done", "failed"
    sessErr,        \* the error the session failed with
    chunksRead,     \* every chunk tty.read() returned to the session
    lastRead,       \* the last call of read(): was open() resolved, its outcome
    \* textSpawn
    command,        \* the executable name
    input,          \* the stdin payload
    spPc,           \* "start": not called yet; "waiting": the executor has run
    started,        \* child.spawn could start the process
    readsToEof,     \* the child reads its stdin up to end-of-input before it exits
    stdinOps,       \* what was done to proc.stdin, in order
    output,         \* the executor's `output`
    error_message,  \* the executor's `error_message`
    promise,        \* the returned promise: its state and its value
    stdoutAll,      \* every stdout 'data' chunk, in order
    stderrAll,      \* every stderr 'data' chunk, in order
    stdinErrored,   \* proc.stdin emitted 'error'
    procErrored,    \* proc emitted 'error'
    procClosed,     \* proc emitted 'close'
    closeCode,      \* the code of the 'close' event
    \* unlockByKeyId
    keyId,          \* its first argument
    passphrase,     \* its second argument
    ulPc,           \* where the call stands: "start", "createDoc", "createSig", "driver", "done"
    document,       \* the local `document`: "undefined", "new" or "created"
    signature,      \* the local `signature`, likewise
    ptyActions,     \* the Action list handed to expectPty
    ulExit,         \* the path the call left its try block on
    sigDispose,     \* signature.dispose(): "none", "pending", "ok", "failed"
    docDispose,     \* document.dispose(), likewise
    \* isKeyUnlocked
    keygrip,        \* its argument
    kiPc,           \* where the call stands: "idle", "spawned", "done"
    replyLines,     \* the lines the agent answers with, each a list of tokens
    replyEnds,      \* whether the last of these lines ends with a line break
    outputs,        \* what textSpawn resolved with
    kiResult,       \* how the call settled
    \* parseGpgKey
    pgPc,           \* "idle" or "done"
    rawBlocks,      \* the blocks rawText is made of, by kind
    infos,          \* the records returned
    \* getKeyInfo
    gkPc,           \* where the call stands: "idle", "spawned", "done"
    listing,        \* the blocks gpg prints, by kind
    cut,            \* the blocks of the first of two 'data' events (0: one event)
    keyInfoRaw,     \* what textSpawn resolved with
    gkResult        \* how the call settled

disposeVars == <<disposePc, disposes, closing, disposeBase, lastDispose>>
ttyVars == <<ttyPath, readHandle, writeHandle, openPc, opens, opened, fds, fdCount,
             writesInFlight, disposeVars>>
peerVars == <<ttyIn, ttyOut, emitted, childPc, exitCode, lateChunk>>
sessVars == <<actions, idx, sessPc, sessErr, chunksRead, lastRead>>
ttyWorld == <<ttyVars, peerVars, sessVars>>
spawnVars == <<command, input, spPc, started, readsToEof, stdinOps, output, error_message,
               promise, stdoutAll, stderrAll, stdinErrored, procErrored, procClosed,
               closeCode>>
unlockVars == <<keyId, passphrase, ulPc, document, signature, ptyActions, ulExit,
                sigDispose, docDispose>>
agentVars == <<keygrip, kiPc, replyLines, replyEnds, outputs, kiResult>>
parseVars == <<pgPc, rawBlocks, infos>>
keyInfoVars == <<gkPc, listing, cut, keyInfoRaw, gkResult>>
restVars == <<unlockVars, agentVars, parseVars, keyInfoVars>>
vars == <<ttyWorld, spawnVars, restVars>>

ExitCodes == {0, 1, 130}

NoRead == [called |-> FALSE, opened |-> FALSE, disposed |-> FALSE, handle |-> Undefined,
           bytesRead |-> 0, outcome |-> "none"]

NoDispose == [settled |-> FALSE, failed |-> FALSE, left |-> {}]

\* ------------------------------------------------------- textSpawn data
\* Text is a sequence of characters; a string variable that was never
\* assigned is undefined.
UndefinedStr == [def |-> FALSE, s |-> <<>>]
Str(s) == [def |-> TRUE, s |-> s]
\* The characters of a string variable (none when it is undefined).
TextOf(v) == IF v.def THEN v.s ELSE <<>>

\* The concatenation of a sequence of chunks.
RECURSIVE Concat(_)
Concat(chunks) == IF chunks = <<>> THEN <<>> ELSE Head(chunks) \o Concat(Tail(chunks))

\* The callers' commands (gpg.ts:38, 58) and stdin payloads.
Commands == {"gpg", "gpg-connect-agent"}
Inputs == {"", "KEYINFO keygrip"}
\* The chunks a 'data' event may carry.
DataChunks == {<<"a">>, <<"b", "c">>}
\* The code of a 'close' event; null (no code: killed by a signal) is NullCode.
NullCode == 0 - 1
CloseCodes == {0, 1, NullCode}

\* A settled promise's value: the resolved output, or the error rejected with.
NoValue == [kind |-> "none", command |-> "", code |-> NullCode, text |-> UndefinedStr]
\* resolve(output)
OutputValue(out) == [kind |-> "output", command |-> "", code |-> 0, text |-> out]
\* new Error(`Command ${command} failed, return code: ${code}, stderr: ${error_message}`)
CommandFailed(cmd, code, msg) ==
    [kind |-> "CommandFailed", command |-> cmd, code |-> code, text |-> msg]
\* The error object of a stream's or the process' 'error' event, passed on as is.
EventError(kind) == [kind |-> kind, command |-> "", code |-> NullCode, text |-> UndefinedStr]

\* A resolve that settles the promise again, whatever its state.
resolve_overwrite(p, v) == [state |-> "fulfilled", value |-> v]

\* A promise settles once: resolve and reject do nothing on a settled promise.
resolve(p, v) == IF p.state = "pending" THEN [state |-> "fulfilled", value |-> v] ELSE p
reject(p, e) == IF p.state = "pending" THEN [state |-> "rejected", value |-> e] ELSE p

\* ------------------------------------------------------- initial states
\* A CurrentTty just constructed, no session, a peer that printed nothing.
TtyIdle ==
    /\ ttyPath = "undefined"
    /\ readHandle = Undefined
    /\ writeHandle = Undefined
    /\ openPc = "none"
    /\ opens = 0
    /\ opened = FALSE
    /\ fds = {}
    /\ fdCount = 0
    /\ writesInFlight = <<>>
    /\ disposePc = "none"
    /\ disposes = 0
    /\ closing = Undefined
    /\ disposeBase = 0
    /\ lastDispose = NoDispose
    /\ ttyIn = <<>>
    /\ ttyOut = <<>>
    /\ emitted = <<>>
    /\ childPc = "running"
    /\ exitCode = 0
    /\ lateChunk = FALSE
    /\ idx = 0
    /\ sessPc = "idle"
    /\ sessErr = "none"
    /\ chunksRead = <<>>
    /\ lastRead = NoRead

\* textSpawn not called yet.
SpawnIdle ==
    /\ spPc = "start"
    /\ started = FALSE
    /\ readsToEof = FALSE
    /\ stdinOps = <<>>
    /\ output = UndefinedStr
    /\ error_message = UndefinedStr
    /\ promise = [state |-> "pending", value |-> NoValue]
    /\ stdoutAll = <<>>
    /\ stderrAll = <<>>
    /\ stdinErrored = FALSE
    /\ procErrored = FALSE
    /\ procClosed = FALSE
    /\ closeCode = NullCode

\* unlockByKeyId not yet called.
UnlockIdle ==
    /\ ulPc = "start"
    /\ document = "undefined"
    /\ signature = "undefined"
    /\ ptyActions = <<>>
    /\ ulExit = "none"
    /\ sigDispose = "none"
    /\ docDispose = "none"

\* isKeyUnlocked not yet called.
NoResult == [kind |-> "none", value |-> FALSE, message |-> <<>>]
\* Text is a sequence of symbols; the separators are symbols of their own.
SP == " "
NL == "\n"
AgentIdle ==
    /\ keygrip = ""
    /\ kiPc = "idle"
    /\ replyLines = <<>>
    /\ replyEnds = FALSE
    /\ outputs = UndefinedStr
    /\ kiResult = NoResult

\* parseGpgKey and getKeyInfo not yet called.
KeyInfoIdle ==
    /\ pgPc = "idle"
    /\ rawBlocks = <<>>
    /\ infos = <<>>
    /\ gkPc = "idle"
    /\ listing = <<>>
    /\ cut = 0
    /\ keyInfoRaw = UndefinedStr
    /\ gkResult = NoResult

RestIdle ==
    /\ keyId = <<>>
    /\ passphrase = ""
    /\ UnlockIdle
    /\ AgentIdle
    /\ KeyInfoIdle

TtyInit ==
    /\ TtyIdle
    /\ actions \in Scripts
    /\ command = "gpg"
    /\ input = ""
    /\ SpawnIdle
    /\ RestIdle

SpawnInit ==
    /\ TtyIdle
    /\ actions = <<>>
    /\ command \in Commands
    /\ input \in Inputs
    /\ SpawnIdle
    /\ RestIdle

\* ------------------------------------------------------------- CurrentTty
\* open(), up to its first await: the path is set, the read open is issued.
open_call ==
    /\ openPc = "none"
    /\ opens < MaxOpens
    /\ opens' = opens + 1
    /\ ttyPath' = "/dev/tty"
    /\ openPc' = "r"
    /\ UNCHANGED <<readHandle, writeHandle, opened, fds, fdCount, writesInFlight>>
    /\ UNCHANGED <<disposeVars, peerVars, sessVars, spawnVars, restVars>>

\* fs.promises.open(path, 'r') settles: the handle is stored and the write
\* open is issued, or open() rejects.
open_readHandle ==
    /\ openPc = "r"
    /\ \E ok \in BOOLEAN :
        IF ok
        THEN /\ fdCount' = fdCount + 1
             /\ fds' = fds \cup {fdCount + 1}
             /\ readHandle' = fdCount + 1
             /\ openPc' = "w"
        ELSE /\ openPc' = "none"
             /\ UNCHANGED <<fdCount, fds, readHandle>>
    /\ UNCHANGED <<ttyPath, writeHandle, opens, opened, writesInFlight>>
    /\ UNCHANGED <<disposeVars, peerVars, sessVars, spawnVars, restVars>>

\* fs.promises.open(path, 'w') settles: the handle is stored and open()
\* resolves, or open() rejects with the read handle kept.
open_writeHandle ==
    /\ openPc = "w"
    /\ \E ok \in BOOLEAN :
        IF ok
        THEN /\ fdCount' = fdCount + 1
             /\ fds' = fds \cup {fdCount + 1}
             /\ writeHandle' = fdCount + 1
             /\ opened' = TRUE
        ELSE UNCHANGED <<fdCount, fds, writeHandle, opened>>
    /\ openPc' = "none"
    /\ UNCHANGED <<ttyPath, readHandle, opens, writesInFlight>>
    /\ UNCHANGED <<disposeVars, peerVars, sessVars, spawnVars, restVars>>

\* read()'s guard: `if (this.#readHandle === undefined) throw 'TTY not opened'`.
read_NotOpened == readHandle = Undefined

\* write()'s guard: `if (this.#writeHandle === undefined) throw 'TTY not opened'`.
write_NotOpened == writeHandle = Undefined

\* result.bytesRead of a read that delivered data: at least one byte (the
\* count itself, at most 256, is not modelled).
SomeBytes == 1

\* A read() without the test: zero bytes come back as an empty chunk.
read_EmptyRead_never(bytesRead) == FALSE

\* read()'s test of the result: `if (result.bytesRead === 0) throw 'Read zero bytes'`.
read_EmptyRead(bytesRead) == bytesRead = 0

\* The handle a field refers to has been closed: an operation on it is
\* refused by the file system (EBADF).
Closed(handle) == handle # Undefined /\ handle \notin fds

\* An operation on the handle is in flight: FileHandle.close() waits for it.
PendingOn(handle) ==
    \/ sessPc = "read" /\ lastRead.handle = handle
    \/ writesInFlight # <<>> /\ writeHandle = handle

\* `await handle?.close()` settles for the handle in `closing`. Nothing is
\* awaited for an undefined field, and closing a closed FileHandle resolves;
\* the close of an open handle succeeds, or fails and leaves it open.
CloseSettles(ok) ==
    IF closing = Undefined \/ closing \notin fds
    THEN ok /\ UNCHANGED fds
    ELSE IF ok THEN fds' = fds \ {closing} ELSE UNCHANGED fds

\* The last dispose() resolved, none is in flight, and the read handle it
\* closed is still the one the channel refers to.
Disposed ==
    /\ disposePc = "none"
    /\ lastDispose.settled /\ ~lastDispose.failed
    /\ Closed(readHandle)

\* dispose() settles: resolved, or rejected with the error of the close.
DisposeSettles(ok) ==
    /\ disposePc' = "none"
    /\ closing' = Undefined
    /\ lastDispose' = [settled |-> TRUE, failed |-> ~ok,
                       left |-> fds' \cap (1..disposeBase)]

\* dispose(), up to its first await: `this.#readHandle?.close()` is issued.
dispose_call ==
    /\ disposePc = "none"
    /\ disposes < MaxDisposes
    /\ disposes' = disposes + 1
    /\ disposePc' = "r"
    /\ closing' = readHandle
    /\ disposeBase' = fdCount
    /\ UNCHANGED <<ttyPath, readHandle, writeHandle, openPc, opens, opened, fds, fdCount,
                   writesInFlight, lastDispose>>
    /\ UNCHANGED <<peerVars, sessVars, spawnVars, restVars>>

\* The close of the read handle settles: `this.#writeHandle?.close()` is
\* issued, or dispose() rejects and never reaches the write handle.
dispose_readHandle ==
    /\ disposePc = "r"
    /\ ~PendingOn(closing)
    /\ \E ok \in BOOLEAN :
        /\ CloseSettles(ok)
        /\ IF ok
           THEN /\ disposePc' = "w"
                /\ closing' = writeHandle
                /\ UNCHANGED lastDispose
           ELSE DisposeSettles(FALSE)
    /\ UNCHANGED <<ttyPath, readHandle, writeHandle, openPc, opens, opened, fdCount,
                   writesInFlight, disposes, disposeBase>>
    /\ UNCHANGED <<peerVars, sessVars, spawnVars, restVars>>

\* The close of the write handle settles, and dispose() with it.
dispose_writeHandle ==
    /\ disposePc = "w"
    /\ ~PendingOn(closing)
    /\ \E ok \in BOOLEAN :
        /\ CloseSettles(ok)
        /\ DisposeSettles(ok)
    /\ UNCHANGED <<ttyPath, readHandle, writeHandle, openPc, opens, opened, fdCount,
                   writesInFlight, disposes, disposeBase>>
    /\ UNCHANGED <<peerVars, sessVars, spawnVars, restVars>>

\* -------------------------------------------------------------- answerTty
\* The session fails: the async function rejects with the error.
Throw(err) ==
    /\ sessPc' = "failed"
    /\ sessErr' = err

\* The head of `for (const action of actions)` with i Actions consumed: the
\* loop ends and answerTty resolves, or the next iteration calls tty.read().
LoopHead(i) ==
    /\ idx' = i
    /\ IF i >= Len(actions)
       THEN /\ sessPc' = "done"
            /\ sessErr' = "none"
            /\ lastRead' = lastRead
       ELSE IF read_NotOpened
       THEN /\ Throw("NotOpened")
            /\ lastRead' = [NoRead EXCEPT !.called = TRUE, !.opened = opened,
                                           !.outcome = "NotOpened"]
       ELSE IF Closed(readHandle)
       THEN /\ Throw("BadHandle")
            /\ lastRead' = [NoRead EXCEPT !.called = TRUE, !.opened = opened,
                                           !.disposed = Disposed, !.handle = readHandle,
                                           !.outcome = "BadHandle"]
       ELSE /\ sessPc' = "read"
            /\ sessErr' = "none"
            /\ lastRead' = [NoRead EXCEPT !.called = TRUE, !.opened = opened,
                                           !.handle = readHandle,
                                           !.outcome = "pending"]

\* The Action of the running iteration: for-of takes the list front to back.
CurrentAction_reversed == actions[Len(actions) - idx]
CurrentAction == actions[idx + 1]

\* `if (output.match(action.question) === null) throw 'Fail to match output'`.
MatchFails_never(text, action) == FALSE
MatchFails(text, action) == ~Matches(text, action.question)

\* answerTty(tty, actions) is called.
answerTty_call ==
    /\ sessPc = "idle"
    /\ LoopHead(0)
    /\ UNCHANGED <<actions, chunksRead>>
    /\ UNCHANGED <<ttyVars, peerVars, spawnVars, restVars>>

\* answerTty_read with the write not awaited: the next iteration starts as
\* soon as the answer is handed to tty.write().
answerTty_read_noAwait ==
    /\ sessPc = "read"
    /\ ttyIn # <<>>
    /\ LET text == Head(ttyIn)
           action == CurrentAction
       IN /\ ttyIn' = Tail(ttyIn)
          /\ chunksRead' = Append(chunksRead, text)
          /\ IF MatchFails(text, action)
             THEN /\ Throw("UnexpectedOutput")
                  /\ lastRead' = [lastRead EXCEPT !.outcome = "chunk", !.bytesRead = SomeBytes]
                  /\ UNCHANGED <<writesInFlight, idx>>
             ELSE IF write_NotOpened
             THEN /\ Throw("NotOpened")
                  /\ lastRead' = [lastRead EXCEPT !.outcome = "chunk", !.bytesRead = SomeBytes]
                  /\ UNCHANGED <<writesInFlight, idx>>
             ELSE IF Closed(writeHandle)
             THEN /\ Throw("BadHandle")
                  /\ lastRead' = [lastRead EXCEPT !.outcome = "chunk", !.bytesRead = SomeBytes]
                  /\ UNCHANGED <<writesInFlight, idx>>
             ELSE /\ writesInFlight' = Append(writesInFlight, action.answer)
                  /\ LoopHead(idx + 1)
    /\ UNCHANGED actions
    /\ UNCHANGED <<ttyPath, readHandle, writeHandle, openPc, opens, opened, fds, fdCount,
                   disposeVars>>
    /\ UNCHANGED <<ttyOut, emitted, childPc, exitCode, lateChunk, spawnVars, restVars>>

\* The read in flight returns a chunk: it is matched against the current
\* Action's question, and the answer is handed to tty.write().
answerTty_read ==
    /\ sessPc = "read"
    /\ ttyIn # <<>>
    /\ LET text == Head(ttyIn)
           action == CurrentAction
       IN /\ ttyIn' = Tail(ttyIn)
          /\ chunksRead' = Append(chunksRead, text)
          /\ lastRead' = [lastRead EXCEPT !.outcome = "chunk", !.bytesRead = SomeBytes]
          /\ IF MatchFails(text, action)
             THEN /\ Throw("UnexpectedOutput")
                  /\ UNCHANGED writesInFlight
             ELSE IF write_NotOpened
             THEN /\ Throw("NotOpened")
                  /\ UNCHANGED writesInFlight
             ELSE IF Closed(writeHandle)
             THEN /\ Throw("BadHandle")
                  /\ UNCHANGED writesInFlight
             ELSE /\ sessPc' = "write"
                  /\ sessErr' = "none"
                  /\ writesInFlight' = Append(writesInFlight, action.answer)
    /\ UNCHANGED <<actions, idx>>
    /\ UNCHANGED <<ttyPath, readHandle, writeHandle, openPc, opens, opened, fds, fdCount,
                   disposeVars>>
    /\ UNCHANGED <<ttyOut, emitted, childPc, exitCode, lateChunk, spawnVars, restVars>>

\* The handle's read completes with zero bytes (the peer is gone and nothing
\* is left to read): read() throws, and answerTty with it. A read() that
\* returned the empty chunk instead would have it matched against the
\* current question, which no empty text matches.
answerTty_readZero ==
    /\ sessPc = "read"
    /\ ttyIn = <<>>
    /\ childPc = "exited"
    /\ IF read_EmptyRead(0)
       THEN /\ Throw("EmptyRead")
            /\ lastRead' = [lastRead EXCEPT !.outcome = "EmptyRead", !.bytesRead = 0]
            /\ UNCHANGED chunksRead
       ELSE /\ Throw("UnexpectedOutput")
            /\ lastRead' = [lastRead EXCEPT !.outcome = "chunk", !.bytesRead = 0]
            /\ chunksRead' = Append(chunksRead, {})
    /\ UNCHANGED <<actions, idx>>
    /\ UNCHANGED <<ttyVars, peerVars, spawnVars, restVars>>

\* writeFile completes: the content is on the terminal, and the session that
\* awaits it goes to the next iteration.
answerTty_write ==
    /\ writesInFlight # <<>>
    /\ ttyOut' = Append(ttyOut, Head(writesInFlight))
    /\ writesInFlight' = Tail(writesInFlight)
    /\ IF sessPc = "write"
       THEN LoopHead(idx + 1)
       ELSE UNCHANGED <<idx, sessPc, sessErr, lastRead>>
    /\ UNCHANGED <<actions, chunksRead>>
    /\ UNCHANGED <<ttyPath, readHandle, writeHandle, openPc, opens, opened, fds, fdCount,
                   disposeVars>>
    /\ UNCHANGED <<ttyIn, emitted, childPc, exitCode, lateChunk, spawnVars, restVars>>

\* ------------------------------------------------------- the peer (input)
\* The peer prints a chunk on the terminal (a chunk is what one read of the
\* device returns).
child_emit ==
    /\ childPc = "running"
    /\ Len(emitted) < MaxChunks
    /\ \E c \in Chunks :
        /\ ttyIn' = Append(ttyIn, c)
        /\ emitted' = Append(emitted, c)
    /\ lateChunk' = (lateChunk \/ sessPc = "done")
    /\ UNCHANGED <<ttyOut, childPc, exitCode>>
    /\ UNCHANGED <<ttyVars, sessVars, spawnVars, restVars>>

\* The peer exits (code 130: killed).
child_exit ==
    /\ childPc = "running"
    /\ childPc' = "exited"
    /\ \E code \in ExitCodes : exitCode' = code
    /\ UNCHANGED <<ttyIn, ttyOut, emitted, lateChunk>>
    /\ UNCHANGED <<ttyVars, sessVars, spawnVars, restVars>>

TtyNext ==
    \/ open_call
    \/ open_readHandle
    \/ open_writeHandle
    \/ dispose_call
    \/ dispose_readHandle
    \/ dispose_writeHandle
    \/ answerTty_call
    \/ answerTty_read
    \/ answerTty_readZero
    \/ answerTty_write
    \/ child_emit
    \/ child_exit

TtySpec == TtyInit /\ [][TtyNext]_vars

\* ------------------------------------------------------------- textSpawn
\* What the executor does to proc.stdin: write(input, 'utf8'), then end().
StdinOps_noEnd(payload) == <<[op |-> "write", data |-> payload]>>
StdinOps(payload) == <<[op |-> "write", data |-> payload], [op |-> "end", data |-> ""]>>

\* textSpawn(command, args, input) is called: the executor runs to its end.
\* The process starts or fails to; the child is one that reads to
\* end-of-input or one that does not.
textSpawn ==
    /\ spPc = "start"
    /\ spPc' = "waiting"
    /\ started' \in BOOLEAN
    /\ readsToEof' \in BOOLEAN
    /\ stdinOps' = StdinOps(input)
    /\ UNCHANGED <<command, input, output, error_message, promise, stdoutAll, stderrAll,
                   stdinErrored, procErrored, procClosed, closeCode>>
    /\ UNCHANGED <<ttyWorld, restVars>>

\* proc.stdout.on('data'): `output = data`.
OnStdout(out, data) == Str(data)

stdout_data ==
    /\ spPc = "waiting"
    /\ started
    /\ ~procClosed
    /\ Len(stdoutAll) < MaxStdout
    /\ \E data \in DataChunks :
        /\ output' = OnStdout(output, data)
        /\ stdoutAll' = Append(stdoutAll, data)
    /\ UNCHANGED <<command, input, spPc, started, readsToEof, stdinOps, error_message,
                   promise, stderrAll, stdinErrored, procErrored, procClosed, closeCode>>
    /\ UNCHANGED <<ttyWorld, restVars>>

\* proc.stderr.on('data'): the chunk is stored in `error_message`.
stderr_data ==
    /\ spPc = "waiting"
    /\ started
    /\ ~procClosed
    /\ Len(stderrAll) < MaxStderr
    /\ \E data \in DataChunks :
        /\ error_message' = Str(data)
        /\ stderrAll' = Append(stderrAll, data)
    /\ UNCHANGED <<command, input, spPc, started, readsToEof, stdinOps, output,
                   promise, stdoutAll, stdinErrored, procErrored, procClosed, closeCode>>
    /\ UNCHANGED <<ttyWorld, restVars>>

\* proc.stdin.on('error', reject): the payload could not be delivered. The
\* stream fails before the process' 'close', which follows the closing of
\* all its stdio streams.
stdin_error ==
    /\ spPc = "waiting"
    /\ ~procClosed
    /\ ~stdinErrored
    /\ stdinErrored' = TRUE
    /\ promise' = reject(promise, EventError("stdin_error"))
    /\ UNCHANGED <<command, input, spPc, started, readsToEof, stdinOps, output,
                   error_message, stdoutAll, stderrAll, procErrored, procClosed, closeCode>>
    /\ UNCHANGED <<ttyWorld, restVars>>

\* proc.on('error', reject): the process could not be started (before its
\* 'close'), or another process error at any time.
proc_error ==
    /\ spPc = "waiting"
    /\ ~procErrored
    /\ procErrored' = TRUE
    /\ promise' = reject(promise, EventError("proc_error"))
    /\ UNCHANGED <<command, input, spPc, started, readsToEof, stdinOps, output,
                   error_message, stdoutAll, stderrAll, stdinErrored, procClosed, closeCode>>
    /\ UNCHANGED <<ttyWorld, restVars>>

\* The stdin of the child has reached end-of-input.
StdinEnded == \E i \in 1..Len(stdinOps) : stdinOps[i].op = "end"

\* proc.on('close'): reject on a code other than 0, then resolve(output)
\* (which the rejection before it turns into a no-op).
OnClose(p, code, out, msg) ==
    resolve(IF code # 0 THEN reject(p, CommandFailed(command, code, msg)) ELSE p,
            OutputValue(out))

\* The codes the process may close with: not 0 when it never started; a
\* child that reads to end-of-input exits by itself only once it got it, and
\* is otherwise killed.
PossibleCloseCodes ==
    IF ~started THEN CloseCodes \ {0}
    ELSE IF readsToEof /\ ~StdinEnded THEN {NullCode}
    ELSE CloseCodes

proc_close ==
    /\ spPc = "waiting"
    /\ ~procClosed
    /\ started \/ procErrored
    /\ procClosed' = TRUE
    /\ \E code \in PossibleCloseCodes :
        /\ closeCode' = code
        /\ promise' = OnClose(promise, code, output, error_message)
    /\ UNCHANGED <<command, input, spPc, started, readsToEof, stdinOps, output,
                   error_message, stdoutAll, stderrAll, stdinErrored, procErrored>>
    /\ UNCHANGED <<ttyWorld, restVars>>

SpawnNext ==
    \/ textSpawn
    \/ stdout_data
    \/ stderr_data
    \/ stdin_error
    \/ proc_error
    \/ proc_close

SpawnSpec == SpawnInit /\ [][SpawnNext]_vars

\* ------------------------------------------------- claims about textSpawn
\* C7 (as claimed): the call succeeds only after a close with code 0 of a
\* process that started and took its stdin; a close of any other kind leaves
\* the call failed; and the error of a call failed by its close names the
\* command, the exit code and all the text captured from stderr.
C7_FailsUnlessExitZero ==
    /\ promise.state = "fulfilled" =>
          (procClosed /\ closeCode = 0 /\ started /\ ~stdinErrored)
    /\ (procClosed /\ (closeCode # 0 \/ ~started \/ stdinErrored)) =>
          promise.state = "rejected"
    /\ (promise.state = "rejected" /\ promise.value.kind = "CommandFailed") =>
          /\ promise.value.command = command
          /\ promise.value.code = closeCode
          /\ TextOf(promise.value.text) = Concat(stderrAll)

\* The part of C7 the code keeps: the outcome is a success only after a close
\* with code 0 of a started process whose stdin did not fail, and such a
\* close never leaves the call pending.
C7_NeverSuccessOnFailure ==
    /\ promise.state = "fulfilled" =>
          (procClosed /\ closeCode = 0 /\ started /\ ~stdinErrored)
    /\ procClosed => promise.state # "pending"

\* C8 (as claimed): with stdout delivered in several chunks, the successful
\* result is the concatenation of all chunks in arrival order.
C8_ConcatenatesChunks ==
    (promise.state = "fulfilled" /\ Len(stdoutAll) >= 2) =>
        TextOf(promise.value.text) = Concat(stdoutAll)

\* C9: once the executor has run and the call waits for the child's events,
\* proc.stdin has been given the whole payload and then, after it, its end;
\* a child that reads to end-of-input and exited by itself had received it.
C9_StdinClosedAfterPayload ==
    /\ spPc = "waiting" =>
          /\ Len(stdinOps) = 2
          /\ stdinOps[1] = [op |-> "write", data |-> input]
          /\ stdinOps[2].op = "end"
    /\ (procClosed /\ started /\ readsToEof /\ closeCode # NullCode) => StdinEnded

\* C9 witness: a child that reads to end-of-input was given a non-empty
\* payload, then end-of-input, and exited with code 0.
C9_Witness ==
    /\ input # ""
    /\ readsToEof
    /\ started
    /\ procClosed
    /\ closeCode = 0
    /\ StdinEnded
    /\ promise.state = "fulfilled"

\* ------------------------------------------------- claims about answerTty
\* Answers handed to the terminal so far, written or still being written.
Answered == ttyOut \o writesInFlight

\* C1: Actions are consumed strictly in the order given. The answers handed
\* to the terminal are exactly the answers of a prefix of the Action list;
\* the i-th answer is handed over only once the i-th chunk read matched the
\* i-th Action's question; every chunk read is spent on the Action of its
\* own position, so no Action is skipped, reordered or used twice.
C1_OrderedConsumption ==
    /\ Len(Answered) <= Len(actions)
    /\ \A i \in 1..Len(Answered) : Answered[i] = actions[i].answer
    /\ Len(chunksRead) <= Len(actions)
    /\ \A i \in 1..Len(Answered) :
          /\ i <= Len(chunksRead)
          /\ Matches(chunksRead[i], actions[i].question)
    /\ Len(chunksRead) <= Len(Answered) + 1
    /\ idx = Len(ttyOut) \/ sessPc \in {"idle", "failed"}

\* C1 witness: a session of two different Actions answered both, in order.
C1_Witness ==
    /\ sessPc = "done"
    /\ Len(actions) = 2
    /\ actions[1] # actions[2]
    /\ Len(ttyOut) = 2

\* C2: a chunk that does not satisfy the question of the pending Action
\* makes the session fail with UnexpectedOutput: that Action's answer is not
\* handed over, and the mismatching chunk is the last one ever read (no
\* later chunk is read, no later answer is written).
C2_MismatchFails ==
    \A k \in 1..Len(chunksRead) :
        (k <= Len(actions) /\ ~Matches(chunksRead[k], actions[k].question)) =>
            /\ k = Len(chunksRead)
            /\ sessPc = "failed"
            /\ sessErr = "UnexpectedOutput"
            /\ Len(Answered) = k - 1

\* C2 witness: two Actions with different questions; the second chunk
\* satisfies the first question and not the second, and the session failed.
C2_Witness ==
    /\ Len(actions) = 2
    /\ Len(chunksRead) = 2
    /\ Matches(chunksRead[2], actions[1].question)
    /\ ~Matches(chunksRead[2], actions[2].question)
    /\ sessPc = "failed"
    /\ sessErr = "UnexpectedOutput"
    /\ ttyOut = <<actions[1].answer>>

\* C3 (as claimed): in a session scripted with at least one Action, a chunk
\* the peer emits after every Action was consumed makes the session fail
\* with ProtocolExhausted.
C3_ProtocolExhausted ==
    (actions # <<>> /\ lateChunk) => (sessPc = "failed" /\ sessErr = "ProtocolExhausted")

\* C4 (as claimed): a session of two Actions whose peer emitted one matching
\* chunk, got its answer and exited with code 0 does not fail.
C4_TrailingActionsOptional ==
    ( /\ Len(actions) = 2
      /\ Len(emitted) = 1
      /\ Matches(emitted[1], actions[1].question)
      /\ ttyOut = <<actions[1].answer>>
      /\ childPc = "exited"
      /\ exitCode = 0 ) => sessPc # "failed"

\* C5 (as claimed): when every Action of a session (at least one) was
\* answered and the peer exited with a non-zero code, the session has failed
\* with ChildProcessFailed; it is never successful with a non-zero exit code.
C5_NonZeroExitFails ==
    ( /\ actions # <<>>
      /\ Len(ttyOut) = Len(actions)
      /\ childPc = "exited"
      /\ exitCode # 0 ) => (sessPc = "failed" /\ sessErr = "ChildProcessFailed")

\* C6: chunk processing is sequential. While a read is in flight no write is
\* in flight and every chunk read so far has its answer fully written; at
\* most one write is ever in flight; chunks are read in arrival order.
C6_Sequential ==
    /\ sessPc = "read" => (writesInFlight = <<>> /\ Len(ttyOut) = Len(chunksRead))
    /\ Len(writesInFlight) <= 1
    /\ chunksRead \o ttyIn = emitted

\* C6 witness: the read of the second chunk is in flight, after the first
\* chunk was read and its answer written.
C6_Witness ==
    /\ sessPc = "read"
    /\ Len(chunksRead) = 1
    /\ ttyOut = <<actions[1].answer>>
    /\ Len(ttyIn) >= 1

\* C10 (as claimed): a read() called before any open() has resolved fails
\* with NotOpened.
C10_ReadBeforeOpen ==
    (lastRead.called /\ ~lastRead.opened) => lastRead.outcome = "NotOpened"

\* ----------------------------------------------------------- unlockByKeyId
KeyIds == {<<"1", "1">>, <<"1", "2">>, <<"2", "1">>, <<"9", "9">>, <<"8", "8", "8", "8">>}
Passphrases == {"", "secret"}

UnlockInit ==
    /\ TtyIdle
    /\ actions = <<>>
    /\ command = "gpg"
    /\ input = ""
    /\ SpawnIdle
    /\ keyId \in KeyIds
    /\ passphrase \in Passphrases
    /\ UnlockIdle
    /\ AgentIdle
    /\ KeyInfoIdle

\* x?.dispose(): called unless x is undefined. TempTextFile.dispose() gives
\* back a promise nobody awaits.
DisposeCall(file) == IF file = "undefined" THEN "none" ELSE "pending"

\* A function without the finally block: the files are released only when
\* the try block ran to its end.
Finally_none(exit, sig, doc) ==
    /\ ulPc' = "done"
    /\ ulExit' = exit
    /\ sigDispose' = IF exit = "success" THEN DisposeCall(sig) ELSE "none"
    /\ docDispose' = IF exit = "success" THEN DisposeCall(doc) ELSE "none"

\* The try block is left by `exit`: `finally { signature?.dispose();
\* document?.dispose(); }`, then the call settles.
Finally(exit, sig, doc) ==
    /\ ulPc' = "done"
    /\ ulExit' = exit
    /\ sigDispose' = DisposeCall(sig)
    /\ docDispose' = DisposeCall(doc)

\* unlockByKeyId(keyId, passphrase) up to its first await: the two
\* TempTextFile objects are constructed (a constructor may throw) and
\* document.create() is issued.
unlockByKeyId_call ==
    /\ ulPc = "start"
    /\ \E made \in 0..2 :
        /\ document' = IF made >= 1 THEN "new" ELSE "undefined"
        /\ signature' = IF made >= 2 THEN "new" ELSE "undefined"
        /\ IF made = 2
           THEN /\ ulPc' = "createDoc"
                /\ UNCHANGED <<ulExit, sigDispose, docDispose>>
           ELSE Finally("constructor", signature', document')
    /\ UNCHANGED <<keyId, passphrase, ptyActions>>
    /\ UNCHANGED <<ttyWorld, spawnVars, agentVars, parseVars, keyInfoVars>>

\* `await document.create()` settles; signature.create() is issued.
document_create ==
    /\ ulPc = "createDoc"
    /\ \E ok \in BOOLEAN :
        IF ok
        THEN /\ document' = "created"
             /\ ulPc' = "createSig"
             /\ UNCHANGED <<ulExit, sigDispose, docDispose>>
        ELSE /\ Finally("createDocument", signature, document)
             /\ UNCHANGED document
    /\ UNCHANGED <<keyId, passphrase, signature, ptyActions>>
    /\ UNCHANGED <<ttyWorld, spawnVars, agentVars, parseVars, keyInfoVars>>

\* `await signature.create()` settles; the two Actions are built and
\* process.expectPty is called with them.
signature_create ==
    /\ ulPc = "createSig"
    /\ \E ok \in BOOLEAN :
        IF ok
        THEN /\ signature' = "created"
             /\ ptyActions' = <<Action(OverwriteQ, "y\n"),
                                Action(PassphraseQ, passphrase \o "\n")>>
             /\ ulPc' = "driver"
             /\ UNCHANGED <<ulExit, sigDispose, docDispose>>
        ELSE /\ Finally("createSignature", signature, document)
             /\ UNCHANGED <<signature, ptyActions>>
    /\ UNCHANGED <<keyId, passphrase, document>>
    /\ UNCHANGED <<ttyWorld, spawnVars, agentVars, parseVars, keyInfoVars>>

\* `await process.expectPty(...)` settles, resolved or rejected.
expectPty_settles ==
    /\ ulPc = "driver"
    /\ \E ok \in BOOLEAN :
        Finally(IF ok THEN "success" ELSE "driver", signature, document)
    /\ UNCHANGED <<keyId, passphrase, document, signature, ptyActions>>
    /\ UNCHANGED <<ttyWorld, spawnVars, agentVars, parseVars, keyInfoVars>>

\* The promise of signature.dispose() settles.
signature_dispose ==
    /\ sigDispose = "pending"
    /\ \E ok \in BOOLEAN : sigDispose' = IF ok THEN "ok" ELSE "failed"
    /\ UNCHANGED <<keyId, passphrase, ulPc, document, signature, ptyActions, ulExit,
                   docDispose>>
    /\ UNCHANGED <<ttyWorld, spawnVars, agentVars, parseVars, keyInfoVars>>

\* The promise of document.dispose() settles.
document_dispose ==
    /\ docDispose = "pending"
    /\ \E ok \in BOOLEAN : docDispose' = IF ok THEN "ok" ELSE "failed"
    /\ UNCHANGED <<keyId, passphrase, ulPc, document, signature, ptyActions, ulExit,
                   sigDispose>>
    /\ UNCHANGED <<ttyWorld, spawnVars, agentVars, parseVars, keyInfoVars>>

UnlockNext ==
    \/ unlockByKeyId_call
    \/ document_create
    \/ signature_create
    \/ expectPty_settles
    \/ signature_dispose
    \/ document_dispose

UnlockSpec == UnlockInit /\ [][UnlockNext]_vars

RECURSIVE IndexOf(_, _, _)
IndexOf(text, sep, from) ==
    IF from > Len(text) THEN 0
    ELSE IF text[from] = sep THEN from
    ELSE IndexOf(text, sep, from + 1)

\* String.prototype.split(sep): the pieces between the separators, empty
\* pieces included; a text without separator is its only piece.
RECURSIVE Split(_, _)
Split(text, sep) ==
    LET i == IndexOf(text, sep, 1)
    IN IF i = 0 THEN <<text>>
       ELSE <<SubSeq(text, 1, i - 1)>> \o Split(SubSeq(text, i + 1, Len(text)), sep)

\* The pieces written one after the other with sep between them.
RECURSIVE Join(_, _)
Join(pieces, sep) ==
    IF pieces = <<>> THEN <<>>
    ELSE IF Len(pieces) = 1 THEN pieces[1]
    ELSE pieces[1] \o <<sep>> \o Join(Tail(pieces), sep)

\* The tokens of a line as the agent prints it.
LineOf(tokens) == Join([i \in 1..Len(tokens) |-> <<tokens[i]>>], SP)

\* The lines as the agent prints them, the last one with or without its
\* line break.
ReplyText(lines, ends) ==
    Join([i \in 1..Len(lines) |-> LineOf(lines[i])], NL) \o (IF ends THEN <<NL>> ELSE <<>>)

\* `tokens.length !== 11`
KeyinfoTokens == 11
\* `tokens[6]`, counted from 1
CachedToken == 7
\* A reading of the token after it.
CachedOf_next(tokens) == tokens[CachedToken + 1]
\* `tokens[6]`
CachedOf(tokens) == tokens[CachedToken]

\* A KEYINFO status line of n tokens for keygrip ABCD1234, with `flag` as
\* its token number `at` (counted from 1) and "-" for the other fields.
StatusLine(n, at, flag) ==
    [i \in 1..n |-> IF i = 1 THEN "S"
                    ELSE IF i = 2 THEN "KEYINFO"
                    ELSE IF i = 3 THEN "ABCD1234"
                    ELSE IF i = 4 THEN "D"
                    ELSE IF i = at THEN flag
                    ELSE "-"]
OkLine == <<"OK">>
ErrLine == <<"ERR", "67108891", "Not", "found">>

\* The replies of the agent: a status line followed by the OK line, for
\* 10 to 12 tokens and a flag "1" or "0" as token 7 or 8; and replies of one
\* line only, an ERR line or a status line.
TokenCounts == {KeyinfoTokens - 1, KeyinfoTokens, KeyinfoTokens + 1}
StatusLines == {StatusLine(n, at, flag) : n \in TokenCounts, at \in {7, 8}, flag \in {"1", "0"}}
AgentReplies ==
    {<<line, OkLine>> : line \in StatusLines}
        \cup {<<ErrLine>>, <<StatusLine(KeyinfoTokens, CachedToken, "1")>>}

Value(v) == [kind |-> "value", value |-> v, message |-> <<>>]
Failure(kind, message) == [kind |-> kind, value |-> FALSE, message |-> message]

\* isKeyUnlocked from the text textSpawn resolved with: the reply is split
\* into lines, a reply of one piece is thrown as the error, the first line
\* is split at the blanks, and the token tokens[6] is compared with "1".
\* (outputs.split throws a TypeError when textSpawn resolved with undefined.)
IsKeyUnlocked(out) ==
    IF ~out.def THEN Failure("TypeError", <<>>)
    ELSE LET lines == Split(out.s, NL)
             tokens == Split(lines[1], SP)
         IN IF Len(lines) = 1 THEN Failure("AgentError", lines[1])
            ELSE IF Len(tokens) # KeyinfoTokens
            THEN Failure("MalformedResponse", <<"Fail to parse KEYINFO output">>)
            ELSE Value(CachedOf(tokens) = <<"1">>)

GpgInit ==
    /\ TtyIdle
    /\ actions = <<>>
    /\ command = "gpg"
    /\ input = ""
    /\ SpawnIdle
    /\ keyId \in KeyIds
    /\ passphrase = ""
    /\ UnlockIdle
    /\ AgentIdle
    /\ KeyInfoIdle

\* isKeyUnlocked(keygrip) up to its await: textSpawn('gpg-connect-agent',
\* [], `KEYINFO ${keygrip}`) is called; the agent will answer with
\* replyLines.
isKeyUnlocked_call ==
    /\ kiPc = "idle"
    /\ pgPc = "idle"
    /\ gkPc = "idle"
    /\ kiPc' = "spawned"
    /\ keygrip' = "ABCD1234"
    /\ \E lines \in AgentReplies, ends \in BOOLEAN :
        /\ replyLines' = lines
        /\ replyEnds' = ends
    /\ UNCHANGED <<outputs, kiResult>>
    /\ UNCHANGED <<ttyWorld, spawnVars, unlockVars, parseVars, keyInfoVars>>

\* textSpawn resolves with the agent's reply (or with undefined when the
\* agent printed nothing), and isKeyUnlocked runs to its end.
isKeyUnlocked_resume ==
    /\ kiPc = "spawned"
    /\ kiPc' = "done"
    /\ \E printed \in BOOLEAN :
        /\ outputs' = IF printed THEN Str(ReplyText(replyLines, replyEnds)) ELSE UndefinedStr
        /\ kiResult' = IsKeyUnlocked(outputs')
    /\ UNCHANGED <<keygrip, replyLines, replyEnds>>
    /\ UNCHANGED <<ttyWorld, spawnVars, unlockVars, parseVars, keyInfoVars>>

\* ------------------------------------------------------------- parseGpgKey
\* The listing of gpg is a text of characters.
\* The blocks listings are made of. Well-formed: a primary key and a subkey.
PubBlock ==
    <<"p", "u", "b", SP, "r", "s", "a", SP, "[", "S", "C", "]", NL, SP, "1", "1", SP, "2",
      "2", NL, SP, "K", "e", "y", "g", "r", "i", "p", SP, "=", SP, "A", "B", NL>>
SubBlock ==
    <<"s", "u", "b", SP, "r", "s", "a", SP, "[", "E", "]", NL, SP, "2", "2", SP, "1", "1",
      NL, SP, "K", "e", "y", "g", "r", "i", "p", SP, "=", SP, "C", "D", NL>>
\* Malformed: a block without its keygrip line, a block whose header has no
\* brackets.
NoKeygripBlock ==
    <<"p", "u", "b", SP, "r", "s", "a", SP, "[", "S", "C", "]", NL, SP, "1", "2", SP, "2",
      "1", NL>>
NoBracketBlock ==
    <<"s", "u", "b", SP, "r", "s", "a", SP, "E", NL, SP, "2", "1", SP, "1", "2", NL, SP,
      "K", "e", "y", "g", "r", "i", "p", SP, "=", SP, "E", "F", NL>>
\* The listing of the scenario: one block, no line break at its end.
ScenarioBlock ==
    <<"p", "u", "b", SP, "r", "s", "a", "4", "0", "9", "6", SP, "[", "S", "C", "]", NL, SP,
      "1", "1", "1", "1", SP, "2", "2", "2", "2", SP, "3", "3", "3", "3", SP, "4", "4",
      "4", "4", SP, "5", "5", "5", "5", SP, "6", "6", "6", "6", SP, "7", "7", "7", "7",
      SP, "8", "8", "8", "8", SP, "9", "9", "9", "9", NL, SP, SP, "K", "e", "y", "g",
      "r", "i", "p", SP, "=", SP, "A", "B", "C", "D", "1", "2", "3", "4">>

\* Most blocks in one listing.
MaxBlocks == 3

WellFormed == {"pub", "sub"}
Malformed == {"noKeygrip", "noBracket"}
BlockText(kind) ==
    CASE kind = "pub" -> PubBlock
      [] kind = "sub" -> SubBlock
      [] kind = "noKeygrip" -> NoKeygripBlock
      [] kind = "noBracket" -> NoBracketBlock
      [] kind = "scenario" -> ScenarioBlock

\* The listings: up to MaxBlocks blocks in which no two malformed blocks
\* follow one another, and the listing of the scenario.
Listings ==
    {b \in UNION {[1..n -> WellFormed \cup Malformed] : n \in 0..MaxBlocks} :
        \A i \in 1..(Len(b) - 1) : ~(b[i] \in Malformed /\ b[i + 1] \in Malformed)}
    \cup {<<"scenario">>}

\* The text of the blocks one after the other.
RECURSIVE ListingText(_)
ListingText(blocks) ==
    IF blocks = <<>> THEN <<>> ELSE BlockText(Head(blocks)) \o ListingText(Tail(blocks))

\* The character classes of the pattern: \s, \w, and `.`.
NonWord == {SP, NL, "[", "]", "=", "-", ""}
IsSpace(c) == c \in {SP, NL}
IsWord(c) == c \notin NonWord
In(c, class) ==
    CASE class = "s" -> IsSpace(c)
      [] class = "w" -> IsWord(c)
      [] class = "sw" -> IsSpace(c) \/ IsWord(c)
      [] class = "." -> c # NL /\ c # ""

\* The character at position i, "" past the end of the text.
At(t, i) == IF i \in 1..Len(t) THEN t[i] ELSE ""
\* The literal at position p.
Lit(t, p, lit) == \A i \in 1..Len(lit) : At(t, p + i - 1) = lit[i]
\* The length of the longest run of characters of the class from position p.
RECURSIVE Run(_, _, _)
Run(t, p, class) == IF In(At(t, p), class) THEN 1 + Run(t, p + 1, class) ELSE 0

\* No way of matching.
NoFit == 0 - 1

\* `Keygrip\s=\s(\w+)` matches at position p.
KeygripAt(t, p) ==
    /\ Lit(t, p, <<"K", "e", "y", "g", "r", "i", "p">>)
    /\ IsSpace(At(t, p + 7))
    /\ At(t, p + 8) = "="
    /\ IsSpace(At(t, p + 9))
    /\ Run(t, p + 10, "w") >= 1

\* `\s+` at position p before `Keygrip...`: the length it matches with, n or
\* less, longest first.
RECURSIVE IndentFit(_, _, _)
IndentFit(t, p, n) ==
    IF n < 1 THEN NoFit
    ELSE IF KeygripAt(t, p + n) THEN n
    ELSE IndentFit(t, p, n - 1)

\* `\n\s+Keygrip\s=\s(\w+)` matches at position q.
KeygripLine(t, q) == At(t, q) = NL /\ IndentFit(t, q + 1, Run(t, q + 1, "s")) # NoFit

\* `((?:\s*\w+)*)` from position p: the group matches nothing, or spaces and
\* word characters up to a word character; the search settles on the longest
\* such stretch, ending before q or earlier, that the rest of the pattern
\* follows. The position after it.
RECURSIVE Group3Fit(_, _, _)
Group3Fit(t, p, q) ==
    IF q < p THEN NoFit
    ELSE IF (q = p \/ IsWord(At(t, q - 1))) /\ KeygripLine(t, q) THEN q
    ELSE Group3Fit(t, p, q - 1)
Group3End(t, p) == Group3Fit(t, p, p + Run(t, p, "sw"))

\* `(.)*\]\n` from position a, then the rest: the number of iterations, n or
\* less, most first.
RECURSIVE Group2Fit(_, _, _)
Group2Fit(t, a, n) ==
    IF n < 0 THEN NoFit
    ELSE IF /\ At(t, a + n) = "]"
            /\ At(t, a + n + 1) = NL
            /\ Group3End(t, a + n + 2) # NoFit
    THEN n
    ELSE Group2Fit(t, a, n - 1)
Group2Len(t, a) == Group2Fit(t, a, Run(t, a, "."))

\* What a group repeated as `(.)*` holds after n iterations ending before
\* position e: the character of the last iteration, nothing (undefined)
\* when there was none.
LastIteration(t, e, n) == IF n = 0 THEN <<>> ELSE <<At(t, e - 1)>>

\* `.*\[` from position b, then the rest: the length of `.*`, n or less,
\* longest first.
RECURSIVE DotStarFit(_, _, _)
DotStarFit(t, b, n) ==
    IF n < 0 THEN NoFit
    ELSE IF At(t, b + n) = "[" /\ Group2Len(t, b + n + 1) # NoFit THEN n
    ELSE DotStarFit(t, b, n - 1)
DotStarLen(t, b) == DotStarFit(t, b, Run(t, b, "."))

\* `\w+` from position c, then the rest: its length, n or less, longest first.
RECURSIVE WordFit(_, _, _)
WordFit(t, c, n) ==
    IF n < 1 THEN NoFit
    ELSE IF DotStarLen(t, c + n) # NoFit THEN n
    ELSE WordFit(t, c, n - 1)
WordLen(t, c) == WordFit(t, c, Run(t, c, "w"))

\* `\s+` from position s, then the rest: its length, n or less, longest first.
RECURSIVE BlankFit(_, _, _)
BlankFit(t, s, n) ==
    IF n < 1 THEN NoFit
    ELSE IF WordLen(t, s + n) # NoFit THEN n
    ELSE BlankFit(t, s, n - 1)
BlankLen(t, s) == BlankFit(t, s, Run(t, s, "s"))

\* The pattern matches at position p: `(pub|sub)`, then the rest.
MatchAt(t, p) ==
    /\ Lit(t, p, <<"p", "u", "b">>) \/ Lit(t, p, <<"s", "u", "b">>)
    /\ BlankLen(t, p + 3) # NoFit

\* The groups of the match at position p, from where each part of the
\* pattern settled, and the position after the match.
Group4(t, k) == [end |-> k + 10 + Run(t, k + 10, "w"),
                 keygrip |-> SubSeq(t, k + 10, k + 9 + Run(t, k + 10, "w"))]
AtGroup3(t, f, q) ==
    Group4(t, q + 1 + IndentFit(t, q + 1, Run(t, q + 1, "s"))) @@ [group3 |-> SubSeq(t, f, q - 1)]
AtGroup2(t, a, n) ==
    AtGroup3(t, a + n + 2, Group3End(t, a + n + 2)) @@ [group2 |-> LastIteration(t, a + n, n)]
AtDotStar(t, b, n) == AtGroup2(t, b + n + 1, Group2Len(t, b + n + 1))
AtWord(t, c, n) == AtDotStar(t, c + n, DotStarLen(t, c + n))
AtBlank(t, s, n) == AtWord(t, s + n, WordLen(t, s + n))
Groups(t, p) == AtBlank(t, p + 3, BlankLen(t, p + 3)) @@ [group1 |-> SubSeq(t, p, p + 2)]

\* matched[3].replace(/\s+/, ''): only the first run of whitespace goes.
StripSpace_first(text) ==
    SubSeq(text, 1, Run(text, 1, "w"))
        \o SubSeq(text, Run(text, 1, "w") + 1 + Run(text, Run(text, 1, "w") + 1, "s"), Len(text))

\* matched[3].replace(/\s+/g, '')
StripSpace(text) == SelectSeq(text, LAMBDA c : ~IsSpace(c))

\* The record parseGpgKey makes of a match.
Info(m) ==
    [type |-> m.group1, capabilities |-> m.group2,
     fingerprint |-> StripSpace(m.group3), keygrip |-> m.keygrip]

\* The loop `while ((matched = pattern.exec(rawText)) !== null)` from
\* position p: the pattern is /g, each search starts where the last match
\* ended.
RECURSIVE ExecFrom(_, _)
ExecFrom(t, p) ==
    IF p > Len(t) THEN <<>>
    ELSE IF MatchAt(t, p)
    THEN <<Info(Groups(t, p))>> \o ExecFrom(t, Groups(t, p).end)
    ELSE ExecFrom(t, p + 1)

parseGpgKey(rawText) == ExecFrom(rawText, 1)

\* parseGpgKey(rawText) is applied to the text of a listing.
parseGpgKey_call ==
    /\ kiPc = "idle"
    /\ pgPc = "idle"
    /\ gkPc = "idle"
    /\ pgPc' = "done"
    /\ \E blocks \in Listings :
        /\ rawBlocks' = blocks
        /\ infos' = parseGpgKey(ListingText(blocks))
    /\ UNCHANGED <<ttyWorld, spawnVars, unlockVars, agentVars, keyInfoVars>>

\* -------------------------------------------------------------- getKeyInfo
\* What a string parameter holds as text: String(undefined) is "undefined".
JsString(v) == IF v.def THEN v.s ELSE <<"u", "n", "d", "e", "f", "i", "n", "e", "d">>

\* The 'data' events of gpg's stdout: none when it prints nothing, one with
\* the whole listing, or two, the first with the first `first` blocks.
DataEvents(blocks, first) ==
    IF blocks = <<>> THEN <<>>
    ELSE IF first = 0 THEN <<ListingText(blocks)>>
    ELSE <<ListingText(SubSeq(blocks, 1, first)),
           ListingText(SubSeq(blocks, first + 1, Len(blocks)))>>

\* textSpawn's `output` after the 'data' events, each handled by OnStdout.
RECURSIVE OutputAfter(_, _)
OutputAfter(out, events) ==
    IF events = <<>> THEN out
    ELSE OutputAfter(OnStdout(out, Head(events)), Tail(events))

\* fingerprint.includes(keyId)
Includes(text, part) ==
    \E i \in 0..(Len(text) - Len(part)) : SubSeq(text, i + 1, i + Len(part)) = part

\* The loop of getKeyInfo over the records from record i on.
RECURSIVE FirstMatch(_, _, _)
FirstMatch(records, id, i) ==
    IF i > Len(records) THEN [kind |-> "KeyNotFound"]
    ELSE IF Includes(records[i].fingerprint, id) THEN [kind |-> "info", info |-> records[i]]
    ELSE FirstMatch(records, id, i + 1)

\* getKeyInfo(keyId) up to its await: textSpawn('gpg', ['--fingerprint',
\* '--fingerprint', '--with-keygrip'], '') is called; gpg will print
\* `listing`.
getKeyInfo_call ==
    /\ kiPc = "idle"
    /\ pgPc = "idle"
    /\ gkPc = "idle"
    /\ gkPc' = "spawned"
    /\ \E blocks \in Listings, first \in 0..MaxBlocks :
        /\ first < Len(blocks)
        /\ listing' = blocks
        /\ cut' = first
    /\ UNCHANGED <<keyInfoRaw, gkResult>>
    /\ UNCHANGED <<ttyWorld, spawnVars, unlockVars, agentVars, parseVars>>

\* textSpawn resolves with its `output`, and getKeyInfo runs to its end.
getKeyInfo_resume ==
    /\ gkPc = "spawned"
    /\ gkPc' = "done"
    /\ keyInfoRaw' = OutputAfter(UndefinedStr, DataEvents(listing, cut))
    /\ gkResult' = FirstMatch(parseGpgKey(JsString(keyInfoRaw')), keyId, 1)
    /\ UNCHANGED <<listing, cut>>
    /\ UNCHANGED <<ttyWorld, spawnVars, unlockVars, agentVars, parseVars>>
GpgNext ==
    \/ isKeyUnlocked_call
    \/ isKeyUnlocked_resume
    \/ parseGpgKey_call
    \/ getKeyInfo_call
    \/ getKeyInfo_resume

GpgSpec == GpgInit /\ [][GpgNext]_vars

\* The agent's reply reached isKeyUnlocked as it was printed.
Replied == kiPc = "done" /\ outputs.def

\* C13 (as claimed): isKeyUnlocked returns true exactly for a status line of
\* 11 blank-separated tokens whose 7th token is "1", fails with
\* MalformedResponse for a status line of another token count, and fails
\* with AgentError for a reply of a single line.
C13_KeyinfoRule ==
    Replied =>
        IF Len(replyLines) = 1 THEN kiResult.kind = "AgentError"
        ELSE IF Len(replyLines[1]) # 11 THEN kiResult.kind = "MalformedResponse"
        ELSE kiResult = Value(replyLines[1][7] = "1")

\* The status line of the scenario: `S KEYINFO ABCD1234 D - - - <flag> - - -`.
ScenarioLine(flag) == <<"S", "KEYINFO", "ABCD1234", "D", "-", "-", "-", flag, "-", "-", "-">>
\* The same line with the flag one field earlier:
\* `S KEYINFO ABCD1234 D - - <flag> - - - -`.
CachedLine(flag) == <<"S", "KEYINFO", "ABCD1234", "D", "-", "-", flag, "-", "-", "-", "-">>

\* C14 (as claimed): for the status line `S KEYINFO ABCD1234 D - - - 1 - - -`
\* followed by the OK line isKeyUnlocked returns true, and for
\* `S KEYINFO ABCD1234 D - - - 0 - - -` it returns false.
C14_ScenarioAsClaimed ==
    /\ (Replied /\ replyLines = <<ScenarioLine("1"), OkLine>>) => kiResult = Value(TRUE)
    /\ (Replied /\ replyLines = <<ScenarioLine("0"), OkLine>>) => kiResult = Value(FALSE)

\* C14 (amended): in `S KEYINFO ABCD1234 D - - - 1 - - -` the "1" is the 8th
\* of the 11 tokens and the 7th is "-", so isKeyUnlocked returns false for
\* it, as it does for `S KEYINFO ABCD1234 D - - - 0 - - -`; it returns true
\* for `S KEYINFO ABCD1234 D - - 1 - - - -`, whose 7th token is "1", and
\* false for `S KEYINFO ABCD1234 D - - 0 - - - -`.
C14_Scenario ==
    /\ (Replied /\ replyLines = <<ScenarioLine("1"), OkLine>>) => kiResult = Value(FALSE)
    /\ (Replied /\ replyLines = <<ScenarioLine("0"), OkLine>>) => kiResult = Value(FALSE)
    /\ (Replied /\ replyLines = <<CachedLine("1"), OkLine>>) => kiResult = Value(TRUE)
    /\ (Replied /\ replyLines = <<CachedLine("0"), OkLine>>) => kiResult = Value(FALSE)

\* C14 witness: isKeyUnlocked has answered the scenario's reply, the status
\* line with "1" followed by the OK line.
C14_Witness ==
    /\ Replied
    /\ replyLines = <<ScenarioLine("1"), OkLine>>
    /\ replyEnds
    /\ kiResult.kind = "value"

\* What the well-formed blocks say: the type, the fingerprint without its
\* blanks and the keygrip of a block, by kind.
TypeIn(kind) == IF kind = "sub" THEN <<"s", "u", "b">> ELSE <<"p", "u", "b">>
FingerprintIn(kind) ==
    CASE kind = "pub" -> <<"1", "1", "2", "2">>
      [] kind = "sub" -> <<"2", "2", "1", "1">>
      [] kind = "scenario" ->
            <<"1", "1", "1", "1", "2", "2", "2", "2", "3", "3", "3", "3", "4", "4", "4", "4", "5", "5", "5", "5",
              "6", "6", "6", "6", "7", "7", "7", "7", "8", "8", "8", "8", "9", "9", "9", "9">>
KeygripIn(kind) ==
    CASE kind = "pub" -> <<"A", "B">>
      [] kind = "sub" -> <<"C", "D">>
      [] kind = "scenario" -> <<"A", "B", "C", "D", "1", "2", "3", "4">>

\* The well-formed blocks of a listing, in its order.
WellFormedIn(blocks) == SelectSeq(blocks, LAMBDA k : k \notin Malformed)

\* The record is the one of the block of this kind (its capabilities left
\* aside).
RecordOf(info, kind) ==
    /\ info.type = TypeIn(kind)
    /\ info.fingerprint = FingerprintIn(kind)
    /\ info.keygrip = KeygripIn(kind)

RECURSIVE FirstBlock(_, _, _)
FirstBlock(blocks, id, i) ==
    IF i > Len(blocks) THEN 0
    ELSE IF blocks[i] \notin Malformed /\ Includes(FingerprintIn(blocks[i]), id) THEN i
    ELSE FirstBlock(blocks, id, i + 1)

\* C15 (as claimed): getKeyInfo returns the record of the first block of
\* gpg's output whose fingerprint contains keyId, and fails with KeyNotFound
\* when there is none, also when gpg printed nothing.
C15_FirstInDocumentOrder ==
    gkPc = "done" =>
        LET i == FirstBlock(listing, keyId, 1)
        IN IF i = 0 THEN gkResult.kind = "KeyNotFound"
           ELSE gkResult.kind = "info" /\ RecordOf(gkResult.info, listing[i])

\* C16 (as claimed): for the listing of the scenario getKeyInfo("8888")
\* returns the record with capabilities "SC", fingerprint
\* "111122223333444455556666777788889999" and keygrip "ABCD1234".
C16_ScenarioRecord ==
    (gkPc = "done" /\ listing = <<"scenario">> /\ keyId = <<"8", "8", "8", "8">>)
        => /\ gkResult.kind = "info"
           /\ gkResult.info.capabilities = <<"S", "C">>
           /\ gkResult.info.fingerprint = FingerprintIn("scenario")
           /\ gkResult.info.keygrip = KeygripIn("scenario")

\* C19: a textSpawn call settles at most once and the first settling event
\* fixes its outcome: a settled promise never changes again, so the
\* resolve(output) after the reject of the close handler, a close with code 0
\* after an error event, and an error event after a success are without
\* effect; a close with a code other than 0 leaves the call failed.
C19_SettlesOnce ==
    /\ []((procClosed /\ closeCode # 0) => promise.state = "rejected")
    /\ [][promise.state # "pending" => promise' = promise]_vars

\* C19 witness: the call failed on a stdin error, and the process has since
\* closed with code 0 and output.
C19_Witness ==
    /\ promise.state = "rejected"
    /\ promise.value.kind = "stdin_error"
    /\ procClosed
    /\ closeCode = 0
    /\ output.def

\* ------------------------------------------------ claims about CurrentTty
\* C18: read() never returns an empty chunk: a chunk it returned holds at
\* least one byte, and a read that delivered zero bytes failed with EmptyRead
\* (and the session that awaited it with the same error).
C18_NoEmptyChunk ==
    /\ lastRead.outcome = "chunk" => lastRead.bytesRead > 0
    /\ lastRead.outcome = "EmptyRead"
          => (lastRead.bytesRead = 0 /\ sessPc = "failed" /\ sessErr = "EmptyRead")
    /\ sessErr = "EmptyRead" => lastRead.outcome = "EmptyRead"

\* C18 witness: after one chunk was read and answered, the peer is gone and
\* the next read delivered zero bytes.
C18_Witness ==
    /\ lastRead.outcome = "EmptyRead"
    /\ Len(chunksRead) = 1
    /\ Len(ttyOut) = 1
    /\ childPc = "exited"

\* The handles the channel's fields refer to.
Referenced == {readHandle, writeHandle} \ {Undefined}

\* C20 (as claimed): once dispose() has closed the handles, the channel
\* refers only to open handles, every handle it opened is referred to or
\* closed, and a read() called on the disposed channel fails with NotOpened.
C20_DisposedChannel ==
    /\ (opened /\ disposePc = "none" /\ openPc = "none" /\ ~lastDispose.failed)
          => (Referenced \subseteq fds /\ fds \subseteq Referenced)
    /\ (lastRead.called /\ lastRead.disposed) => lastRead.outcome = "NotOpened"

\* C11 (as claimed): dispose() never fails, and once it has returned no
\* handle the channel had acquired remains open, also when closing the read
\* handle fails. Stated for a dispose() of a channel whose open() had
\* resolved before the call, with no open() since.
C11_DisposeSafe ==
    (lastDispose.settled /\ opened /\ openPc = "none" /\ disposeBase = fdCount)
        => (~lastDispose.failed /\ lastDispose.left = {})

====
